---- MODULE Spec2Model ----
(***************************************************************************)
(* Chain lifecycle manager of kit (src/src/chain/mod.rs): execute,         *)
(* start_chain, wait_for_anvil, predeploy_contracts, initialize_contracts, *)
(* together with the tasks execute spawns and the chain they talk to.      *)
(***************************************************************************)
EXTENDS Integers, Sequences, FiniteSets, TLC

\* ---------------------------------------------------------------- constants

\* const DEFAULT_MAX_ATTEMPTS: u16 = 16;
DEFAULT_MAX_ATTEMPTS == 16

\* max_attempts of the single-shot probe, wait_for_anvil(port, 1, None)
PROBE_ATTEMPTS == 1

\* const PREDEPLOY_CONTRACTS: the addresses, in list order
PREDEPLOY_CONTRACTS ==
    <<"Multicall3", "KinoAccount", "SimplePublicMinter", "KimapProxy", "KimapImpl">>

\* const STORAGE_SLOTS: one override, the implementation slot of the Kimap proxy
STORAGE_SLOTS == <<"KimapProxyImplSlot">>

\* const TRANSACTIONS: the bootstrap transactions, in list order
TRANSACTIONS == <<"DeployERC6551Registry", "InitializeKimap", "MintOs", "MintDev">>

\* ------------------------------------------------------------------- bounds

\* how many predeploy addresses of a pre-existing chain hold code at the start
MaxPreloaded == 1

\* how many JSON-RPC answers without a usable result (an error object) the
\* chain gives to eth_getCode / anvil_setCode / anvil_setStorageAt in one run
MaxRpcErrors == 1

\* how many times the program is run against the same pre-existing chain
MaxRuns == 2

\* the largest max_attempts wait_for_anvil is called with on its own
MaxWaitAttempts == 3

\* transaction counts the chain may report for the owner account
NonceValues == {0, 15}

\* "result" strings of eth_getTransactionCount that denote no number
OddNonceStrings ==
    { <<"0", "x">>, <<"0", "x", "z">>, <<"0", "X", "1">>, <<"-", "1">>, <<"+">> }

\* ------------------------------------------------------------------- state

VARIABLES
    ext,          \* a chain that this run did not start listens on the port
    code,         \* code at each predeploy address of the chain on the port
    child,        \* the anvil child: "none", "running", "exited", "killed"
    caller,       \* who called start_chain: "execute" or "other"
    run,          \* number of the current run against the chain
    spawned,      \* start_chain holds a Child handle
    pc,           \* position of the main flow (start_chain, then execute)
    idx,          \* index of the running for loop over a static table
    scRet,        \* what start_chain returned: "pending", "OkNone", "OkSome", "Err"
    failStage,    \* the call of start_chain that failed
    failedAt,     \* the step inside that call that failed
    killIssued,   \* child.kill() was called
    maxAttempts,  \* wait_for_anvil: the max_attempts argument of the last call
    hasRecv,      \* wait_for_anvil: recv_kill is Some
    attempt,      \* wait_for_anvil: completed rounds of the for loop
    timerFired,   \* wait_for_anvil: the 250 ms sleep of this round has elapsed
    waitRes,      \* wait_for_anvil: what the last call returned
    lastProbe,    \* wait_for_anvil: outcome of the last probe
    probesSent,   \* wait_for_anvil: probes sent by the current call
    probeOk,      \* a call of wait_for_anvil returned Ok in this run
    probe0Ok,     \* the single-shot probe of line 213 returned Ok in this run
    pdDone,       \* predeploy_contracts returned Ok in this run
    hadConflict,  \* the pre-existing chain held other code at a predeploy address
    bootStarted,  \* a bootstrap RPC was sent in this run
    impSent,      \* anvil_impersonateAccount was answered
    stopSent,     \* anvil_stopImpersonatingAccount was sent
    storageSent,  \* anvil_setStorageAt calls of this run
    nonce,        \* initialize_contracts: let mut nonce
    nonceReads,   \* eth_getTransactionCount calls of this run
    kRead,        \* the transaction count the chain reported
    sentNonces,   \* the "nonce" fields of the transactions sent, in order
    rejected,     \* indices of the transactions answered with an error field
    setCodeCalls, \* anvil_setCode calls of this run
    rpcErrs,      \* error-object answers in the code and storage setup of this run
    codeAfter1,   \* code on the chain when run 1 finished its predeploy phase
    run1Ok,       \* predeploy_contracts of run 1 returned Ok
    execRet,      \* what execute returned: "pending", "Ok", "Err", "ErrPortInUse"
    cos,          \* the cleanup_on_signal task: "waiting", "done"
    cleanupTask,  \* the cleanup_anvil task: "none", "waiting", "done"
    cleanupQ,     \* messages in the cleanup channel
    killSc,       \* a kill message waits in start_chain's broadcast receiver
    killInWait,   \* it arrived during the current wait, before the sleep elapsed
    killCos,      \* a kill message waits in cleanup_on_signal's receiver
    cleanCalls,   \* calls of clean_process_by_pid
    killSends,    \* calls of send_to_kill.send
    waited,       \* child.wait() returned
    sigInPoll     \* an OS signal arrived while start_chain polled the spawned child

chainVars == <<ext, code, child>>
runVars == <<caller, run, spawned, codeAfter1, run1Ok, hadConflict>>
ctlVars == <<pc, idx, scRet, failStage, failedAt, killIssued>>
waitVars ==
    <<maxAttempts, hasRecv, attempt, timerFired, lastProbe, probesSent, killSc, killInWait>>
histVars == <<waitRes, probeOk, probe0Ok>>
bootVars ==
    <<bootStarted, pdDone, impSent, stopSent, nonce, nonceReads, kRead, sentNonces,
      rejected, setCodeCalls, rpcErrs, storageSent>>
execVars ==
    <<execRet, cos, cleanupTask, cleanupQ, killCos, cleanCalls, killSends, waited,
      sigInPoll>>

vars == <<chainVars, runVars, ctlVars, waitVars, histVars, bootVars, execVars>>

\* ------------------------------------------------------- hex strings (pure)

\* a string is a sequence of one-character strings
LowerHex ==
    <<"0", "1", "2", "3", "4", "5", "6", "7", "8", "9", "a", "b", "c", "d", "e", "f">>

UpperHex ==
    <<"0", "1", "2", "3", "4", "5", "6", "7", "8", "9", "A", "B", "C", "D", "E", "F">>

\* char::to_digit(16): the value of a hex digit of either case, -1 for any other char
ToDigit(c) ==
    IF \E d \in 1..16 : LowerHex[d] = c
    THEN (CHOOSE d \in 1..16 : LowerHex[d] = c) - 1
    ELSE IF \E d \in 1..16 : UpperHex[d] = c
         THEN (CHOOSE d \in 1..16 : UpperHex[d] = c) - 1
         ELSE -1

\* {:x} of an unsigned integer: lowercase, no leading zeros, "0" for zero
RECURSIVE LowerHexOf(_)
LowerHexOf(n) ==
    IF n < 16 THEN <<LowerHex[n + 1]>>
    ELSE LowerHexOf(n \div 16) \o <<LowerHex[(n % 16) + 1]>>

\* format!("0x{:x}", nonce)
FormatNonce(n) == <<"0", "x">> \o LowerHexOf(n)

\* str::trim_start_matches("0x"): removes every leading repetition of "0x"
RECURSIVE TrimStart0x(_)
TrimStart0x(s) ==
    IF Len(s) >= 2 /\ s[1] = "0" /\ s[2] = "x"
    THEN TrimStart0x(SubSeq(s, 3, Len(s)))
    ELSE s

\* the digits of s folded in base 16, -1 as soon as one char is no hex digit
RECURSIVE FoldDigits(_, _)
FoldDigits(s, acc) ==
    IF s = <<>> THEN acc
    ELSE IF ToDigit(Head(s)) < 0 THEN -1
         ELSE FoldDigits(Tail(s), acc * 16 + ToDigit(Head(s)))

\* u64::from_str_radix(s, 16): -1 stands for Err. An empty string is an error, one
\* leading "+" is accepted, a "-" is not (the type is unsigned).
FromStrRadix16(s) ==
    LET digits == IF s # <<>> /\ Head(s) = "+" THEN Tail(s) ELSE s
    IN  IF digits = <<>> THEN -1 ELSE FoldDigits(digits, 0)

\* lines 141-146: the nonce initialize_contracts computes from a string result
ParseNonce(s) == FromStrRadix16(TrimStart0x(s))

\* the chain's encoding of a transaction count (a JSON-RPC quantity)
Quantity(n) == <<"0", "x">> \o LowerHexOf(n)

\* ---------------------------------------------------------------- the chain

Addrs == {PREDEPLOY_CONTRACTS[a] : a \in 1..Len(PREDEPLOY_CONTRACTS)}

\* code at an address: none, the bytecode of the table (trimmed), anything else
Codes == {"0x", "target", "other"}

EmptyCode == [a \in Addrs |-> "0x"]

InitCodes ==
    {c \in [Addrs -> Codes] : Cardinality({a \in Addrs : c[a] # "0x"}) <= MaxPreloaded}

\* something answers JSON-RPC on the port
Answering == ext \/ child = "running"

\* outcomes of one HTTP round trip of the probe
ProbeOutcomes ==
    IF Answering THEN {"ready", "neterr", "status", "badjson", "noresult"} ELSE {"neterr"}

\* outcomes of one bootstrap RPC: a JSON answer with a result, a JSON answer
\* with an error object, no well-formed JSON answer
RpcOutcomes == IF Answering THEN {"ok", "rpcerr", "fail"} ELSE {"fail"}

\* Child::kill on the handle start_chain holds
ChildAfterKill == IF child = "running" THEN "killed" ELSE child

\* the state of a spawned anvil is gone with it
CodeAfterChildGone == IF ext THEN code ELSE EmptyCode

\* -------------------------------------------------------------------- Init

\* the state of a run before its first step, but for where the run starts
InitRest ==
    /\ ext \in BOOLEAN
    /\ code \in (IF ext THEN InitCodes ELSE {EmptyCode})
    /\ child = "none"
    /\ caller \in {"execute", "other"}
    /\ run = 1
    /\ spawned = FALSE
    /\ idx = 0
    /\ scRet = "pending"
    /\ failStage = "none"
    /\ failedAt = "none"
    /\ killIssued = FALSE
    /\ attempt = 0
    /\ timerFired = FALSE
    /\ waitRes = "none"
    /\ lastProbe = "none"
    /\ probesSent = 0
    /\ probeOk = FALSE
    /\ probe0Ok = FALSE
    /\ pdDone = FALSE
    /\ hadConflict = (\E a \in Addrs : code[a] = "other")
    /\ bootStarted = FALSE
    /\ impSent = FALSE
    /\ stopSent = FALSE
    /\ storageSent = 0
    /\ nonce = 0
    /\ nonceReads = 0
    /\ kRead = -1
    /\ sentNonces = <<>>
    /\ rejected = {}
    /\ setCodeCalls = 0
    /\ rpcErrs = 0
    /\ codeAfter1 = EmptyCode
    /\ run1Ok = FALSE
    /\ execRet = "pending"
    /\ cos = "waiting"
    /\ cleanupTask = "none"
    /\ cleanupQ = 0
    /\ killSc = FALSE
    /\ killInWait = FALSE
    /\ killCos = FALSE
    /\ cleanCalls = 0
    /\ killSends = 0
    /\ waited = FALSE
    /\ sigInPoll = FALSE

\* a run starts at the top of start_chain
Init ==
    /\ pc = "deps"
    /\ maxAttempts = 0
    /\ hasRecv = FALSE
    /\ InitRest

\* ------------------------------------------------------------- start_chain

\* KillOnErr as it would be if the error path of initialize_contracts
\* (lines 243-246) returned with `?` like the attach path does
KillOnErrNoInit(stage) == stage \in {"wait", "predeploy"}

\* lines 231-246: the failures after which start_chain kills its child
KillOnErr(stage) == stage \in {"wait", "predeploy", "initialize"}

\* start_chain returns Err from the call `stage`, whose step `at` failed
Fail(stage, at) ==
    /\ pc' = "sc_done"
    /\ idx' = 0
    /\ scRet' = "Err"
    /\ failStage' = stage
    /\ failedAt' = at
    /\ killIssued' = (killIssued \/ (spawned /\ KillOnErr(stage)))
    /\ child' = IF spawned /\ KillOnErr(stage) THEN ChildAfterKill ELSE child
    /\ code' = IF spawned /\ KillOnErr(stage) /\ child = "running"
               THEN CodeAfterChildGone ELSE code
    /\ ext' = ext

\* the call wait_for_anvil(port, max, recv)
CallWait(max, recv) ==
    /\ pc' = "w_loop"
    /\ maxAttempts' = max
    /\ hasRecv' = recv
    /\ attempt' = 0
    /\ timerFired' = FALSE
    /\ probesSent' = 0
    /\ UNCHANGED <<lastProbe, killSc, killInWait, histVars>>

\* lines 209-213: check_foundry_deps and get_deps, then the single-shot probe
GetDeps ==
    /\ pc = "deps"
    /\ \E ok \in BOOLEAN :
        IF ok
        THEN /\ CallWait(PROBE_ATTEMPTS, FALSE)
             /\ UNCHANGED <<chainVars, idx, scRet, failStage, failedAt, killIssued>>
        ELSE /\ Fail("deps", "deps")
             /\ UNCHANGED <<waitVars, histVars>>
    /\ UNCHANGED <<runVars, bootVars, execVars>>

\* AfterWait as it would be if the Err of the bounded wait were dropped
AfterWaitIgnoreErr(recv, res) ==
    IF res = "Ok" THEN "pd_get"
    ELSE IF recv THEN "pd_get" ELSE "spawn"

\* AfterWait as it would be if start_chain spawned whatever the first probe said
AfterWaitSpawnAnyway(recv, res) ==
    IF recv
    THEN IF res = "Ok" THEN "pd_get" ELSE "fail"
    ELSE "spawn"

\* lines 213-217 and 231-236: what start_chain does with wait_for_anvil's result:
\* the position it goes to, "fail" for the error return
AfterWait(recv, res) ==
    IF res = "Ok" THEN "pd_get"
    ELSE IF recv THEN "fail" ELSE "spawn"

\* wait_for_anvil returns res to start_chain; its locals, the receiver among
\* them, are dropped
WaitReturn(res) ==
    /\ waitRes' = res
    /\ probeOk' = (probeOk \/ res = "Ok")
    /\ probe0Ok' = (probe0Ok \/ (~hasRecv /\ res = "Ok"))
    /\ maxAttempts' = maxAttempts
    /\ hasRecv' = FALSE
    /\ attempt' = 0
    /\ timerFired' = FALSE
    /\ lastProbe' = "none"
    /\ probesSent' = 0
    /\ killSc' = IF hasRecv THEN FALSE ELSE killSc
    /\ killInWait' = FALSE
    /\ CASE AfterWait(hasRecv, res) = "fail" ->
                Fail("wait", res)
         [] AfterWait(hasRecv, res) = "pd_get" ->
                /\ pc' = "pd_get"
                /\ idx' = 1
                /\ UNCHANGED <<chainVars, scRet, failStage, failedAt, killIssued>>
         [] OTHER ->
                /\ pc' = "spawn"
                /\ UNCHANGED <<chainVars, idx, scRet, failStage, failedAt, killIssued>>

\* lines 219-231: Command::new("anvil").spawn()?, then the bounded wait
Spawn ==
    /\ pc = "spawn"
    /\ \E ok \in BOOLEAN :
        IF ok
        THEN /\ spawned' = TRUE
             /\ child' = "running"
             /\ CallWait(DEFAULT_MAX_ATTEMPTS, TRUE)
             /\ UNCHANGED <<ext, code, idx, scRet, failStage, failedAt, killIssued>>
        ELSE /\ Fail("spawn", "spawn")
             /\ UNCHANGED <<spawned, waitVars, histVars>>
    /\ UNCHANGED <<caller, run, codeAfter1, run1Ok, hadConflict, bootVars, execVars>>

\* ---------------------------------------------------------- wait_for_anvil

\* InRange as it would be for the inclusive range 0..=max_attempts
InRangeInclusive(i, n) == i <= n

\* line 262: for _ in 0..max_attempts has a round left after i rounds
InRange(i, n) == i < n

\* line 262, loop exhausted; lines 297-302
WaitExhausted ==
    /\ pc = "w_loop"
    /\ ~InRange(attempt, maxAttempts)
    /\ WaitReturn("Exhausted")
    /\ UNCHANGED <<runVars, bootVars, execVars>>

\* lines 262-270: the next round sends eth_blockNumber
ProbeSend ==
    /\ pc = "w_loop"
    /\ InRange(attempt, maxAttempts)
    /\ pc' = "w_inflight"
    /\ probesSent' = probesSent + 1
    /\ UNCHANGED <<idx, scRet, failStage, failedAt, killIssued>>
    /\ UNCHANGED <<maxAttempts, hasRecv, attempt, timerFired, lastProbe, killSc, killInWait>>
    /\ UNCHANGED <<chainVars, runVars, histVars, bootVars, execVars>>

\* lines 272-283: what the match on the response does: "return Ok", "return Err"
\* or "wait" (fall through to the sleep)
OnProbe(o) ==
    CASE o = "ready" -> "return Ok"
      [] o = "badjson" -> "return Err"
      [] OTHER -> "wait"

\* lines 270-291: the response arrives. The select! of line 286 is polled at
\* once: a kill message already in the receiver wins over the fresh sleep.
ProbeResp ==
    /\ pc = "w_inflight"
    /\ \E o \in ProbeOutcomes :
        CASE OnProbe(o) = "return Ok" -> WaitReturn("Ok")
          [] OnProbe(o) = "return Err" -> WaitReturn("JsonErr")
          [] OTHER ->
                IF hasRecv /\ killSc
                THEN WaitReturn("Cancelled")
                ELSE /\ pc' = "w_wait"
                     /\ lastProbe' = o
                     /\ timerFired' = FALSE
                     /\ UNCHANGED <<maxAttempts, hasRecv, attempt, probesSent, killSc,
                                    killInWait>>
                     /\ UNCHANGED <<chainVars, idx, scRet, failStage, failedAt,
                                    killIssued, histVars>>
    /\ UNCHANGED <<runVars, bootVars, execVars>>

\* the 250 ms of sleep(Duration::from_millis(250)) elapse
TimerFire ==
    /\ pc = "w_wait"
    /\ ~timerFired
    /\ timerFired' = TRUE
    /\ UNCHANGED <<maxAttempts, hasRecv, attempt, lastProbe, probesSent, killSc, killInWait>>
    /\ UNCHANGED <<chainVars, runVars, ctlVars, histVars, bootVars, execVars>>

\* lines 287 and 293: the sleep branch completes, the loop goes on
WaitSleep ==
    /\ pc = "w_wait"
    /\ timerFired
    /\ pc' = "w_loop"
    /\ attempt' = attempt + 1
    /\ timerFired' = FALSE
    /\ killInWait' = FALSE
    /\ UNCHANGED <<idx, scRet, failStage, failedAt, killIssued>>
    /\ UNCHANGED <<maxAttempts, hasRecv, lastProbe, probesSent, killSc>>
    /\ UNCHANGED <<chainVars, runVars, histVars, bootVars, execVars>>

\* lines 288-290: the recv_kill.recv() branch completes
WaitRecvKill ==
    /\ pc = "w_wait"
    /\ hasRecv
    /\ killSc
    /\ WaitReturn("Cancelled")
    /\ UNCHANGED <<runVars, bootVars, execVars>>

\* ----------------------------------------------------- predeploy_contracts

\* line 320: result["result"].as_str().unwrap_or("0x") on the eth_getCode answer
QueriedCode(o, a) == IF o = "ok" THEN code[a] ELSE "0x"

\* lines 322-341: anvil_setCode is sent for the code queried
InjectWhen(queried) == queried = "0x"

\* the for loop of line 310 goes on after entry idx, leaving newCode on the
\* chain; after the last entry predeploy_contracts returns Ok(()) and
\* start_chain calls initialize_contracts
PdAdvance(newCode) ==
    /\ code' = newCode
    /\ IF idx < Len(PREDEPLOY_CONTRACTS)
       THEN /\ pc' = "pd_get"
            /\ idx' = idx + 1
            /\ UNCHANGED <<pdDone, codeAfter1, run1Ok>>
       ELSE /\ pc' = "in_imp"
            /\ idx' = 0
            /\ pdDone' = TRUE
            /\ codeAfter1' = IF run = 1 THEN newCode ELSE codeAfter1
            /\ run1Ok' = (run1Ok \/ run = 1)
    /\ UNCHANGED <<ext, child, caller, run, spawned, hadConflict>>
    /\ UNCHANGED <<scRet, failStage, failedAt, killIssued>>

\* lines 311-322: eth_getCode for entry idx
PdGetCode ==
    /\ pc = "pd_get"
    /\ bootStarted' = TRUE
    /\ \E o \in RpcOutcomes :
        /\ o = "rpcerr" => rpcErrs < MaxRpcErrors
        /\ rpcErrs' = IF o = "rpcerr" THEN rpcErrs + 1 ELSE rpcErrs
        /\ IF o = "fail"
           THEN /\ Fail("predeploy", "getCode")
                /\ UNCHANGED <<runVars, pdDone>>
           ELSE IF InjectWhen(QueriedCode(o, PREDEPLOY_CONTRACTS[idx]))
                THEN /\ pc' = "pd_set"
                     /\ UNCHANGED <<chainVars, runVars, pdDone, idx, scRet, failStage,
                                    failedAt, killIssued>>
                ELSE PdAdvance(code)
    /\ UNCHANGED <<impSent, stopSent, nonce, nonceReads, kRead, sentNonces,
                   rejected, setCodeCalls, storageSent>>
    /\ UNCHANGED <<waitVars, histVars, execVars>>

\* lines 323-336: anvil_setCode for entry idx; the answer is parsed and dropped
PdSetCode ==
    /\ pc = "pd_set"
    /\ bootStarted' = TRUE
    /\ setCodeCalls' = setCodeCalls + 1
    /\ \E o \in RpcOutcomes :
        /\ o = "rpcerr" => rpcErrs < MaxRpcErrors
        /\ rpcErrs' = IF o = "rpcerr" THEN rpcErrs + 1 ELSE rpcErrs
        /\ CASE o = "fail" ->
                    /\ Fail("predeploy", "setCode")
                    /\ UNCHANGED <<runVars, pdDone>>
             [] o = "ok" ->
                    PdAdvance([code EXCEPT ![PREDEPLOY_CONTRACTS[idx]] = "target"])
             [] OTHER ->
                    PdAdvance(code)
    /\ UNCHANGED <<impSent, stopSent, nonce, nonceReads, kRead, sentNonces, rejected,
                   storageSent>>
    /\ UNCHANGED <<waitVars, histVars, execVars>>

\* ---------------------------------------------------- initialize_contracts

\* initialize_contracts goes on to position p, loop index i
InGoto(p, i) ==
    /\ pc' = p
    /\ idx' = i
    /\ UNCHANGED <<chainVars, scRet, failStage, failedAt, killIssued>>

\* AfterImpersonate as it would be if the storage loop were left out
AfterImpersonateNoStorage == "in_nonce"

\* lines 106-126: what follows anvil_impersonateAccount: the loop over
\* STORAGE_SLOTS, then the nonce query
AfterImpersonate == IF Len(STORAGE_SLOTS) > 0 THEN "in_storage" ELSE "in_nonce"

\* lines 93-106: anvil_impersonateAccount
InImpersonate ==
    /\ pc = "in_imp"
    /\ bootStarted' = TRUE
    /\ \E o \in RpcOutcomes :
        IF o = "fail"
        THEN /\ Fail("initialize", "impersonate")
             /\ UNCHANGED impSent
        ELSE /\ impSent' = TRUE
             /\ InGoto(AfterImpersonate, IF AfterImpersonate = "in_storage" THEN 1 ELSE 0)
    /\ UNCHANGED <<pdDone, stopSent, nonce, nonceReads, kRead, sentNonces, rejected,
                   setCodeCalls, rpcErrs, storageSent>>
    /\ UNCHANGED <<runVars, waitVars, histVars, execVars>>

\* lines 108-124: anvil_setStorageAt for entry idx; the answer is parsed and dropped
InStorage ==
    /\ pc = "in_storage"
    /\ \E o \in RpcOutcomes :
        /\ o = "rpcerr" => rpcErrs < MaxRpcErrors
        /\ rpcErrs' = IF o = "rpcerr" THEN rpcErrs + 1 ELSE rpcErrs
        /\ IF o = "fail"
           THEN Fail("initialize", "setStorage")
           ELSE IF idx < Len(STORAGE_SLOTS)
                THEN InGoto("in_storage", idx + 1)
                ELSE InGoto("in_nonce", 0)
    /\ storageSent' = storageSent + 1
    /\ UNCHANGED <<bootStarted, pdDone, impSent, stopSent, nonce, nonceReads, kRead,
                   sentNonces, rejected, setCodeCalls>>
    /\ UNCHANGED <<runVars, waitVars, histVars, execVars>>

\* what the chain may put in "result" of eth_getTransactionCount: k is the count
\* a quantity stands for
NonceAnswers ==
    {[k |-> k, s |-> Quantity(k)] : k \in NonceValues}
        \cup {[k |-> -1, s |-> s] : s \in OddNonceStrings}

\* lines 126-146: eth_getTransactionCount and the parse of its result
InGetNonce ==
    /\ pc = "in_nonce"
    /\ nonceReads' = nonceReads + 1
    /\ \E o \in RpcOutcomes :
        CASE o = "fail" ->
                /\ Fail("initialize", "nonce_rpc")
                /\ UNCHANGED <<nonce, kRead>>
          [] o = "rpcerr" ->
                /\ Fail("initialize", "nonce_invalid")
                /\ UNCHANGED <<nonce, kRead>>
          [] OTHER ->
                \E r \in NonceAnswers :
                    IF ParseNonce(r.s) < 0
                    THEN /\ Fail("initialize", "nonce_parse")
                         /\ UNCHANGED <<nonce, kRead>>
                    ELSE /\ nonce' = ParseNonce(r.s)
                         /\ kRead' = r.k
                         /\ IF Len(TRANSACTIONS) > 0
                            THEN InGoto("in_tx", 1)
                            ELSE InGoto("in_stop", 0)
    /\ UNCHANGED <<bootStarted, pdDone, impSent, stopSent, sentNonces, rejected,
                   setCodeCalls, rpcErrs, storageSent>>
    /\ UNCHANGED <<runVars, waitVars, histVars, execVars>>

\* OnTxAnswer as it would be if an error field made the loop return Err
OnTxAnswerAbort(o) == IF o = "rpcerr" THEN "abort" ELSE "continue"

\* lines 172-179: what the loop does with a JSON answer: "continue" with the
\* next entry or "abort"
OnTxAnswer(o) == "continue"

\* NextNonce as it would be if the nonce advanced only for accepted transactions
NextNonceOnSuccess(n, o) == IF o = "rpcerr" THEN n ELSE n + 1

\* line 179: nonce += 1, whatever the answer o was
NextNonce(n, o) == n + 1

\* lines 149-180: eth_sendTransaction for entry idx
InSendTx ==
    /\ pc = "in_tx"
    /\ sentNonces' = Append(sentNonces, FormatNonce(nonce))
    /\ \E o \in RpcOutcomes :
        IF o = "fail"
        THEN /\ Fail("initialize", "tx")
             /\ UNCHANGED <<nonce, rejected>>
        ELSE /\ rejected' = IF o = "rpcerr" THEN rejected \cup {idx} ELSE rejected
             /\ IF OnTxAnswer(o) = "abort"
                THEN /\ Fail("initialize", "tx_rejected")
                     /\ UNCHANGED nonce
                ELSE /\ nonce' = NextNonce(nonce, o)
                     /\ IF idx < Len(TRANSACTIONS)
                        THEN InGoto("in_tx", idx + 1)
                        ELSE InGoto("in_stop", 0)
    /\ UNCHANGED <<bootStarted, pdDone, impSent, stopSent, nonceReads, kRead,
                   setCodeCalls, rpcErrs, storageSent>>
    /\ UNCHANGED <<runVars, waitVars, histVars, execVars>>

\* OkResult as it would be if the attach path returned a handle as well
OkResultAlwaysChild(hasChild) == "OkSome"

\* lines 216 and 250: start_chain returns Ok: None on the attach path, the
\* child on the spawn path
OkResult(hasChild) == IF hasChild THEN "OkSome" ELSE "OkNone"

\* lines 183-199: anvil_stopImpersonatingAccount, then Ok(()); start_chain returns
InStop ==
    /\ pc = "in_stop"
    /\ stopSent' = TRUE
    /\ \E o \in RpcOutcomes :
        IF o = "fail"
        THEN Fail("initialize", "stop")
        ELSE /\ pc' = "sc_done"
             /\ scRet' = OkResult(spawned)
             /\ UNCHANGED <<chainVars, idx, failStage, failedAt, killIssued>>
    /\ UNCHANGED <<bootStarted, pdDone, impSent, nonce, nonceReads, kRead, sentNonces,
                   rejected, setCodeCalls, rpcErrs, storageSent>>
    /\ UNCHANGED <<runVars, waitVars, histVars, execVars>>

\* ----------------------------------------------------------------- execute

\* the run is still going on
RunActive == IF caller = "execute" THEN execRet = "pending" ELSE scRet = "pending"

\* lines 362-374: start_chain(..).await?, the let-else on the child, and the
\* spawn of the cleanup_anvil task
ExecAfterStart ==
    /\ pc = "sc_done"
    /\ caller = "execute"
    /\ execRet = "pending"
    /\ CASE scRet = "Err" ->
                /\ execRet' = "Err"
                /\ pc' = "ex_done"
                /\ UNCHANGED cleanupTask
         [] scRet = "OkNone" ->
                /\ execRet' = "ErrPortInUse"
                /\ pc' = "ex_done"
                /\ UNCHANGED cleanupTask
         [] OTHER ->
                /\ cleanupTask' = "waiting"
                /\ pc' = "ex_wait"
                /\ UNCHANGED execRet
    /\ UNCHANGED <<idx, scRet, failStage, failedAt, killIssued>>
    /\ UNCHANGED <<cos, cleanupQ, killCos, cleanCalls, killSends, waited, sigInPoll>>
    /\ UNCHANGED <<chainVars, runVars, waitVars, histVars, bootVars>>

\* ReapOnWait as it would be if execute reaped by pid once more after the wait
ReapOnWaitToo(n) == n + 1

\* line 376: calls of clean_process_by_pid made by execute itself when
\* child.wait() returns
ReapOnWait(n) == n

\* line 376: let _ = child.wait(), which returns once the child has exited
ExecChildWait ==
    /\ pc = "ex_wait"
    /\ child \in {"exited", "killed"}
    /\ waited' = TRUE
    /\ cleanCalls' = ReapOnWait(cleanCalls)
    /\ pc' = "ex_join_signals"
    /\ UNCHANGED <<idx, scRet, failStage, failedAt, killIssued>>
    /\ UNCHANGED <<execRet, cos, cleanupTask, cleanupQ, killCos, killSends, sigInPoll>>
    /\ UNCHANGED <<chainVars, runVars, waitVars, histVars, bootVars>>

\* Joined as it would be if the JoinHandle were dropped instead of awaited
JoinedNoWait(task) == TRUE

\* lines 378-379: awaiting a JoinHandle completes once the task has finished
Joined(task) == task = "done"

\* line 378: let _ = handle_signals.await
ExecJoinSignals ==
    /\ pc = "ex_join_signals"
    /\ Joined(cos)
    /\ pc' = "ex_join_cleanup"
    /\ UNCHANGED <<idx, scRet, failStage, failedAt, killIssued>>
    /\ UNCHANGED <<chainVars, runVars, waitVars, histVars, bootVars, execVars>>

\* line 379: let _ = cleanup_anvil.await
ExecJoinCleanup ==
    /\ pc = "ex_join_cleanup"
    /\ Joined(cleanupTask)
    /\ pc' = "ex_send_kill"
    /\ UNCHANGED <<idx, scRet, failStage, failedAt, killIssued>>
    /\ UNCHANGED <<chainVars, runVars, waitVars, histVars, bootVars, execVars>>

\* lines 381-383: let _ = send_to_kill.send(true); Ok(())
ExecSendKill ==
    /\ pc = "ex_send_kill"
    /\ killSends' = killSends + 1
    /\ killCos' = TRUE
    /\ execRet' = "Ok"
    /\ pc' = "ex_done"
    /\ UNCHANGED <<idx, scRet, failStage, failedAt, killIssued>>
    /\ UNCHANGED <<cos, cleanupTask, cleanupQ, cleanCalls, waited, sigInPoll>>
    /\ UNCHANGED <<chainVars, runVars, waitVars, histVars, bootVars>>

\* the cleanup_on_signal task spawned at line 354: it waits for an OS signal or
\* for the kill broadcast, then sends on the cleanup channel and ends
CleanupOnSignal ==
    /\ caller = "execute"
    /\ execRet = "pending"
    /\ cos = "waiting"
    /\ \E trigger \in {"signal", "kill"} :
        /\ trigger = "kill" => killCos
        /\ killCos' = IF trigger = "kill" THEN FALSE ELSE killCos
        /\ sigInPoll' = (trigger = "signal" /\ hasRecv /\ pc \in {"w_loop", "w_inflight", "w_wait"})
    /\ cleanupQ' = cleanupQ + 1
    /\ cos' = "done"
    /\ UNCHANGED <<execRet, cleanupTask, cleanCalls, killSends, waited>>
    /\ UNCHANGED <<chainVars, runVars, ctlVars, waitVars, histVars, bootVars>>

\* clean_process_by_pid(child_id): the process with that pid is brought down
CleanProcessByPid ==
    /\ cleanCalls' = cleanCalls + 1
    /\ child' = IF child = "running" THEN "exited" ELSE child
    /\ code' = IF child = "running" THEN CodeAfterChildGone ELSE code
    /\ ext' = ext

\* lines 371-374: the cleanup_anvil task: one recv on the cleanup channel, then
\* clean_process_by_pid
CleanupAnvil ==
    /\ cleanupTask = "waiting"
    /\ cleanupQ > 0
    /\ cleanupQ' = cleanupQ - 1
    /\ CleanProcessByPid
    /\ cleanupTask' = "done"
    /\ UNCHANGED <<execRet, cos, killCos, killSends, waited, sigInPoll>>
    /\ UNCHANGED <<runVars, ctlVars, waitVars, histVars, bootVars>>

\* ------------------------------------------------------------- environment

\* the spawned anvil exits on its own (the port is taken, a crash, a signal
\* sent to the process group)
ChildExit ==
    /\ RunActive
    /\ child = "running"
    /\ child' = "exited"
    /\ code' = CodeAfterChildGone
    /\ ext' = ext
    /\ UNCHANGED <<runVars, ctlVars, waitVars, histVars, bootVars, execVars>>

\* line 205: the caller of start_chain publishes on the kill broadcast while
\* start_chain still holds recv_kill (execute itself publishes at line 381 only)
CallerKill ==
    /\ caller = "other"
    /\ pc \in {"w_loop", "w_inflight", "w_wait", "spawn"}
    /\ ~killSc
    /\ killSc' = TRUE
    /\ killInWait' = (pc = "w_wait" /\ hasRecv /\ ~timerFired)
    /\ UNCHANGED <<maxAttempts, hasRecv, attempt, timerFired, lastProbe, probesSent>>
    /\ UNCHANGED <<chainVars, runVars, ctlVars, histVars, bootVars, execVars>>

\* the program is run again against the chain that is still on the port
NewRun ==
    /\ ext
    /\ run < MaxRuns
    /\ ~RunActive
    /\ child # "running"
    /\ run' = run + 1
    /\ child' = "none"
    /\ spawned' = FALSE
    /\ pc' = "deps"
    /\ idx' = 0
    /\ scRet' = "pending"
    /\ failStage' = "none"
    /\ failedAt' = "none"
    /\ killIssued' = FALSE
    /\ maxAttempts' = 0
    /\ hasRecv' = FALSE
    /\ attempt' = 0
    /\ timerFired' = FALSE
    /\ waitRes' = "none"
    /\ lastProbe' = "none"
    /\ probesSent' = 0
    /\ probeOk' = FALSE
    /\ probe0Ok' = FALSE
    /\ pdDone' = FALSE
    /\ bootStarted' = FALSE
    /\ impSent' = FALSE
    /\ stopSent' = FALSE
    /\ storageSent' = 0
    /\ nonce' = 0
    /\ nonceReads' = 0
    /\ kRead' = -1
    /\ sentNonces' = <<>>
    /\ rejected' = {}
    /\ setCodeCalls' = 0
    /\ rpcErrs' = 0
    /\ execRet' = "pending"
    /\ cos' = "waiting"
    /\ cleanupTask' = "none"
    /\ cleanupQ' = 0
    /\ killSc' = FALSE
    /\ killInWait' = FALSE
    /\ killCos' = FALSE
    /\ cleanCalls' = 0
    /\ killSends' = 0
    /\ waited' = FALSE
    /\ sigInPoll' = FALSE
    /\ UNCHANGED <<ext, code, caller, codeAfter1, run1Ok, hadConflict>>

\* ------------------------------------------------------------ specification

\* the steps of start_chain and its callees
StartChainSteps ==
    \/ GetDeps
    \/ Spawn
    \/ WaitExhausted
    \/ ProbeSend
    \/ ProbeResp
    \/ TimerFire
    \/ WaitSleep
    \/ WaitRecvKill
    \/ PdGetCode
    \/ PdSetCode
    \/ InImpersonate
    \/ InStorage
    \/ InGetNonce
    \/ InSendTx
    \/ InStop

StartChainNext ==
    \/ StartChainSteps
    \/ ChildExit
    \/ CallerKill

ExecuteNext ==
    \/ ExecAfterStart
    \/ ExecChildWait
    \/ ExecJoinSignals
    \/ ExecJoinCleanup
    \/ ExecSendKill
    \/ CleanupOnSignal
    \/ CleanupAnvil

Next == StartChainNext \/ ExecuteNext

\* one run of execute, or of start_chain for another caller
Spec == Init /\ [][Next]_vars

\* start_chain called by another caller, run after run against one
\* pre-existing chain
InitRerun == Init /\ ext /\ caller = "other"

NextRerun == StartChainNext \/ NewRun

SpecRerun == InitRerun /\ [][NextRerun]_vars

\* wait_for_anvil on its own: any max_attempts, with or without a receiver,
\* against a silent port or a chain that answers
InitWait ==
    /\ pc = "w_loop"
    /\ maxAttempts \in 0..MaxWaitAttempts
    /\ hasRecv \in BOOLEAN
    /\ InitRest
    /\ caller = "other"

NextWait ==
    \/ WaitExhausted
    \/ ProbeSend
    \/ ProbeResp
    \/ TimerFire
    \/ WaitSleep
    \/ WaitRecvKill
    \/ CallerKill

SpecWait == InitWait /\ [][NextWait]_vars

\* the scheduling of execute: every step of the main flow and of the two tasks
\* that can run is taken in the end (the runtime polls ready tasks, an RPC gets
\* its answer or its failure, the sleep elapses). Nothing makes an OS signal
\* arrive or the child exit: cleanup_on_signal must go on only once the
\* kill broadcast has reached it.
Fairness ==
    /\ WF_vars(StartChainSteps)
    /\ WF_vars(ExecAfterStart)
    /\ WF_vars(ExecChildWait)
    /\ WF_vars(ExecJoinSignals)
    /\ WF_vars(ExecJoinCleanup)
    /\ WF_vars(ExecSendKill)
    /\ WF_vars(CleanupAnvil)
    /\ WF_vars(CleanupOnSignal /\ killCos)

SpecLive == Init /\ [][Next]_vars /\ Fairness

\* ------------------------------------------------------------------ claims

WaitPcs == {"w_loop", "w_inflight", "w_wait"}

Returned == scRet # "pending"

ReturnedOk == scRet \in {"OkNone", "OkSome"}

\* C1: once start_chain has spawned a child, it either returns Ok with the
\* child and no kill was issued, or the kill was issued by the time it returns
\* the error; no kill is issued while it is still running or without a child.
C1_HandleOrKilled ==
    /\ (spawned /\ Returned) =>
           \/ scRet = "OkSome" /\ ~killIssued
           \/ scRet = "Err" /\ killIssued
    /\ (spawned /\ ~Returned) => ~killIssued
    /\ ~spawned => ~killIssued

\* C1, the case: a spawned child, and contract initialization failed
C1_Witness ==
    /\ spawned
    /\ scRet = "Err"
    /\ failStage = "initialize"
    /\ killIssued

\* C2: clean_process_by_pid is called at most once in a run of execute.
C2_ReapAtMostOnce == cleanCalls <= 1

\* C2, the case: a signal arrived, the cleanup task reaped the child and
\* execute went on past child.wait()
C2_Witness ==
    /\ caller = "execute"
    /\ cleanCalls = 1
    /\ cos = "done"
    /\ waited

\* C3: whenever initialize_contracts has returned after anvil_impersonateAccount
\* was answered, anvil_stopImpersonatingAccount has been sent.
C3_ImpersonationReleased == (impSent /\ Returned) => stopSent

\* C4: the transaction count is read at most once, and exactly once before any
\* transaction is sent; the i-th nonce sent is the quantity k+i-1 for the count
\* k the chain reported; after the loop every entry of TRANSACTIONS has one.
C4_SequentialNonces ==
    /\ nonceReads <= 1
    /\ sentNonces # <<>> => (nonceReads = 1 /\ kRead >= 0)
    /\ \A i \in 1..Len(sentNonces) : sentNonces[i] = Quantity(kRead + i - 1)
    /\ Len(sentNonces) <= Len(TRANSACTIONS)
    /\ (pc = "in_stop" \/ stopSent) => Len(sentNonces) = Len(TRANSACTIONS)

\* C4, the case: the count was 15, two transactions in the middle of the list
\* were rejected, and the loop is over
C4_Witness ==
    /\ kRead = 15
    /\ rejected = {2, 3}
    /\ pc = "in_stop"
    /\ sentNonces[Len(TRANSACTIONS)] = <<"0", "x", "1", "2">>

\* C5: an error field in the answer to a transaction never makes the bootstrap
\* fail: after a rejected entry the next entry is sent (or, after the last, the
\* loop is left normally), and start_chain can still return Ok; a transport
\* failure of a send ends start_chain with Err before any later entry is sent.
C5_RejectionNotFatal ==
    /\ failedAt # "tx_rejected"
    /\ \A i \in rejected :
           \/ Len(sentNonces) > i
           \/ Len(sentNonces) = i /\ i < Len(TRANSACTIONS) /\ pc = "in_tx" /\ idx = i + 1
           \/ Len(sentNonces) = i /\ i = Len(TRANSACTIONS) /\ (pc = "in_stop" \/ stopSent)
    /\ ReturnedOk => Len(sentNonces) = Len(TRANSACTIONS)
    /\ failedAt = "tx" => (scRet = "Err" /\ pc \notin {"in_tx", "in_stop"} /\ ~stopSent)

\* C5, the case: the first transaction was rejected and start_chain returned Ok
C5_Witness ==
    /\ 1 \in rejected
    /\ ReturnedOk

\* C6: after a first run whose predeploy phase returned Ok on a chain without
\* conflicting code, a second run sends no anvil_setCode and leaves the code of
\* every predeploy address as the first run left it.
C6_SecondRunInjectsNothing ==
    (run = 2 /\ run1Ok /\ ~hadConflict) => (setCodeCalls = 0 /\ code = codeAfter1)

\* C7: no bootstrap RPC is sent before a readiness probe has returned success.
C7_BootstrapAfterReady == bootStarted => probeOk

\* C7, the case: the spawn path, the bounded wait returned Ok and the
\* bootstrap has begun
C7_Witness ==
    /\ spawned
    /\ bootStarted
    /\ ~probe0Ok
    /\ probeOk

\* C8: when the single-shot probe succeeded, start_chain spawns nothing, never
\* returns a child, fails only inside the bootstrap, and returns Ok(None) only
\* after the predeploy phase and the whole contract initialization; Ok(None) is
\* returned in no other case.
C8_AttachBootstraps ==
    /\ probe0Ok =>
           /\ ~spawned
           /\ child = "none"
           /\ scRet \in {"pending", "OkNone", "Err"}
           /\ scRet = "Err" => failStage \in {"predeploy", "initialize"}
           /\ scRet = "OkNone" =>
                  /\ pdDone
                  /\ impSent
                  /\ stopSent
                  /\ Len(sentNonces) = Len(TRANSACTIONS)
    /\ scRet = "OkNone" => probe0Ok

\* C8, the case: a chain answered the first probe and start_chain returned Ok(None)
C8_Witness ==
    /\ probe0Ok
    /\ scRet = "OkNone"
    /\ child = "none"

\* C9: wait_for_anvil returns before max_attempts rounds only with success or
\* with the cancellation error.
C9_OnlyReadyOrCancelEndsEarly ==
    [][(pc \in WaitPcs /\ pc' \notin WaitPcs /\ attempt < maxAttempts)
          => waitRes' \in {"Ok", "Cancelled"}]_vars

\* C10: from a wait between attempts during which the kill broadcast fired
\* (before the sleep of that wait had elapsed), the prober goes nowhere but to
\* the return of the cancellation error: no further probe, no exhaustion.
C10_CancelledFromThatWait ==
    [][(pc = "w_wait" /\ killInWait)
          => (pc' = "w_wait" \/ (pc' = "sc_done" /\ waitRes' = "Cancelled"))]_vars

\* C11: once execute has returned from a run in which a trigger occurred (an
\* OS signal was received, or the child exited), send_to_kill.send has been
\* performed exactly once; it is performed at most once in any run.
C11_ExactlyOneKillEvent ==
    /\ killSends <= 1
    /\ (caller = "execute" /\ execRet # "pending" /\ (cos = "done" \/ child = "exited"))
           => killSends = 1

\* C12: once start_chain has returned the child to execute and one of the units
\* has completed (the child has exited, or the signal listener is done),
\* execute eventually publishes the kill broadcast and returns.
C12_FirstUnitEndsRun ==
    (caller = "execute" /\ scRet = "OkSome" /\ (child = "exited" \/ cos = "done"))
        ~> (execRet = "Ok" /\ killSends = 1)

\* C13: when an OS signal arrived while start_chain, called from execute, was
\* polling for the readiness of the spawned child, that wait_for_anvil does not
\* run out of its attempts: start_chain does not fail with the exhaustion error.
C13_SignalCancelsPolling ==
    sigInPoll => ~(failStage = "wait" /\ failedAt = "Exhausted")

\* the bootstrap positions of the predeploy phase
PredeployPcs == {"pd_get", "pd_set"}

C15_SetupErrorFatal ==
    [][((pc = "pd_set" \/ pc = "in_storage") /\ rpcErrs' = rpcErrs + 1)
          => (pc' = "sc_done" /\ scRet' = "Err")]_vars

\* C16: for the entry at hand, an answered eth_getCode is followed by
\* anvil_setCode exactly when the address holds no code; no step of
\* predeploy_contracts changes code already at an address (the target or any
\* other), and none fails because of it.
C16_InjectOnlyWhenEmpty ==
    [][(pc \in PredeployPcs /\ <<pc, idx>>' # <<pc, idx>> /\ pc' # "sc_done")
          => /\ pc = "pd_get" =>
                    (pc' = "pd_set" <=> code[PREDEPLOY_CONTRACTS[idx]] = "0x")
             /\ \A a \in Addrs : code[a] # "0x" => code'[a] = code[a]]_vars

\* the step is a return of wait_for_anvil
WaitReturns == pc \in WaitPcs /\ pc' \notin WaitPcs

C18_ProbesUntilReadyOrExhausted ==
    [][(WaitReturns /\ ~killSc)
          => \/ /\ waitRes' = "Ok"
                /\ pc = "w_inflight"
                /\ probesSent = attempt + 1
                /\ probesSent <= maxAttempts
             \/ /\ waitRes' = "Exhausted"
                /\ probesSent = maxAttempts]_vars

\* the run took the attach path: the single-shot probe found a chain, or
\* start_chain returned no child
Attached == probe0Ok \/ scRet = "OkNone"

\* C19: on the attach path there is no child, no child.kill(), no
\* child.wait(), no cleanup task and no clean_process_by_pid.
C19_AttachedNeverReaps ==
    Attached =>
        /\ ~spawned
        /\ child = "none"
        /\ ~killIssued
        /\ ~waited
        /\ cleanupTask = "none"
        /\ cleanCalls = 0

\* C19, the case: execute attached to a running chain, a signal arrived, and
\* execute returned
C19_Witness ==
    /\ caller = "execute"
    /\ scRet = "OkNone"
    /\ cos = "done"
    /\ execRet # "pending"

\* C20: when execute has failed with the port-conflict error, no
\* anvil_setCode, anvil_setStorageAt, anvil_impersonateAccount or
\* eth_sendTransaction was sent in that run.
C20_ConflictLeavesChainAlone ==
    execRet = "ErrPortInUse" =>
        /\ setCodeCalls = 0
        /\ storageSent = 0
        /\ ~impSent
        /\ sentNonces = <<>>

\* C21: send_to_kill.send has been performed only once child.wait() has
\* returned and both tasks have completed: the signal listener is done, and
\* the cleanup task is done with its one call of clean_process_by_pid, none
\* of it still pending.
C21_KillAfterJoins ==
    killSends > 0 =>
        /\ waited
        /\ cos = "done"
        /\ cleanupTask = "done"
        /\ cleanCalls = 1
        /\ cleanupQ = 0

\* C21, the case: execute went through the whole shutdown and returned Ok
C21_Witness ==
    /\ caller = "execute"
    /\ killSends = 1
    /\ execRet = "Ok"
    /\ waited
    /\ cleanCalls = 1

====
